---- MODULE Spec2Model ----
(***************************************************************************)
(* NoteBot (app.py): the note structuring function text_to_project_notes  *)
(* and the upload handler process_files.                                   *)
(*                                                                         *)
(* Text is a sequence of tokens.  A token is one character ("#", "-",     *)
(* "*", " ", "\n", a digit, a letter) or one whole word that the code     *)
(* only ever compares as a unit ("Project Title", a section name, a       *)
(* placeholder sentence).  Prefix tests, find, strip, splitlines and join *)
(* are computed on these sequences as Python computes them on strings.    *)
(***************************************************************************)
EXTENDS Integers, Sequences, FiniteSets, TLC

VARIABLES
    ai_call,      \* outcome of requests.post(.../api/generate) in text_to_project_notes
    document,     \* value returned by text_to_project_notes(raw_text)
    redocument,   \* value returned when `document` comes back as the model response
    phase,        \* "start" -> "structured" -> "refed"
    files,        \* request.files.getlist("files"): the uploads of one POST /api/process
    idx,          \* position of the `for file in files` loop
    pc,           \* where process_files stands
    temp_path,    \* path the current upload was saved to
    raw_text,     \* text extracted from the current upload
    results,      \* the results list of the response
    http_status,  \* status of the response, 0 while the handler runs
    uploads,      \* paths present in uploads_dir
    outputs,      \* outputs_dir: stem of the .md file -> its text
    trail,        \* per upload, what happened to it (history)
    threads,      \* the requests the threaded server handles at once: request -> its locals
    stored        \* the files of uploads_dir under concurrent requests: path -> bytes

notes_vars == <<ai_call, document, redocument, phase>>
request_vars == <<files, idx, pc, temp_path, raw_text, results, http_status,
                  uploads, outputs, trail>>
upload_vars == <<threads, stored>>
vars == <<ai_call, document, redocument, phase, files, idx, pc, temp_path,
          raw_text, results, http_status, uploads, outputs, trail, threads, stored>>

\* ------------------------------------------------------------------ bounds
MaxLines == 3
MaxFiles == 2
MaxRequests == 2

\* ------------------------------------------------------- string primitives
Whitespace == {" ", "\t", "\n", "\r"}
Digits == {"0", "1", "2", "3", "4", "5", "6", "7", "8", "9"}

\* str.startswith(prefix)
StartsWith(s, prefix) ==
    /\ Len(s) >= Len(prefix)
    /\ SubSeq(s, 1, Len(prefix)) = prefix

\* str.find(pattern): lowest 1-based index of the pattern, 0 where Python gives -1
Find(s, pattern) ==
    LET hits == {i \in 1..(Len(s) - Len(pattern) + 1) :
                    SubSeq(s, i, i + Len(pattern) - 1) = pattern}
    IN  IF hits = {} THEN 0 ELSE CHOOSE i \in hits : \A j \in hits : i <= j

RECURSIVE LStrip(_)
LStrip(s) ==
    IF s = <<>> THEN s
    ELSE IF Head(s) \in Whitespace THEN LStrip(Tail(s)) ELSE s

RECURSIVE RStrip(_)
RStrip(s) ==
    IF s = <<>> THEN s
    ELSE IF s[Len(s)] \in Whitespace THEN RStrip(SubSeq(s, 1, Len(s) - 1)) ELSE s

\* str.strip()
Strip(s) == RStrip(LStrip(s))

\* str.splitlines() on "\n": no trailing empty line after a final line break
RECURSIVE SplitFrom(_, _, _)
SplitFrom(s, cur, acc) ==
    IF s = <<>> THEN (IF cur = <<>> THEN acc ELSE Append(acc, cur))
    ELSE IF Head(s) = "\n" THEN SplitFrom(Tail(s), <<>>, Append(acc, cur))
    ELSE SplitFrom(Tail(s), Append(cur, Head(s)), acc)

splitlines(s) == SplitFrom(s, <<>>, <<>>)

\* "\n".join(lines)
RECURSIVE Join(_)
Join(lines) ==
    IF lines = <<>> THEN <<>>
    ELSE IF Len(lines) = 1 THEN lines[1]
    ELSE lines[1] \o <<"\n">> \o Join(Tail(lines))

\* ------------------------------------------------------------ configuration
TitleMarker == <<"#", " ", "Project Title">>

required_sections ==
    << "Goals / Objectives",
       "Key Features or Deliverables",
       "Tasks and Steps",
       "Estimated Timeline / Deadlines",
       "Resources / Tools Needed",
       "Potential Risks / Challenges",
       "Next Actions" >>

placeholder_text ==
    ( "Goals / Objectives" :> "Define the main purpose and goals." ) @@
    ( "Key Features or Deliverables" :> "List expected outputs or features." ) @@
    ( "Tasks and Steps" :> "Break down the work into steps." ) @@
    ( "Estimated Timeline / Deadlines" :> "Set realistic deadlines." ) @@
    ( "Resources / Tools Needed" :> "Identify required tools or access." ) @@
    ( "Potential Risks / Challenges" :> "Note possible obstacles." ) @@
    ( "Next Actions" :> "List immediate next steps." )

H1Prefix == <<"#", " ">>
H2Prefix == <<"#", "#", " ">>

\* header = f"## {section}"
Header(section) == H2Prefix \o <<section>>

DefaultTitleBullet == <<"-", " ", "Project enhancement">>

\* f"- {placeholder_text[section]}"
PlaceholderBullet(section) == <<"-", " ", placeholder_text[section]>>

\* ------------------------------------------------------- strict rebuilding
\* start_idx = ai_output.find("# Project Title"); ai_output[start_idx:]
Anchor(ai_output) ==
    LET start_idx == Find(ai_output, TitleMarker)
    IN  IF start_idx # 0 THEN SubSeq(ai_output, start_idx, Len(ai_output))
        ELSE ai_output

\* [line.strip() for line in ai_output.splitlines() if line.strip()]
NormalizeLines(ai_output) ==
    LET raw == splitlines(ai_output)
        stripped == [i \in 1..Len(raw) |-> Strip(raw[i])]
    IN  SelectSeq(stripped, LAMBDA line : line # <<>>)

\* f"- {line}" if not line.startswith(("-", "*")) else line
FormatTitleLine(line) ==
    IF StartsWith(line, <<"-">>) \/ StartsWith(line, <<"*">>) THEN line
    ELSE <<"-", " ">> \o line

\* the loop at "First, add title"
RECURSIVE ScanTitle(_, _)
ScanTitle(lines, title_lines) ==
    IF lines = <<>> THEN title_lines
    ELSE LET line == Head(lines) IN
         IF StartsWith(line, H1Prefix) THEN ScanTitle(Tail(lines), title_lines)
         ELSE IF StartsWith(line, H2Prefix) THEN title_lines
         ELSE ScanTitle(Tail(lines), Append(title_lines, FormatTitleLine(line)))

TitleBlock(lines) ==
    LET title_lines == ScanTitle(lines, <<>>)
    IN  <<TitleMarker>> \o
        (IF title_lines # <<>> THEN title_lines ELSE <<DefaultTitleBullet>>)

\* mutant of FormatContentLine: every line is promoted to a bullet
FormatContentLineAlwaysPromotes(line) == <<"-", " ">> \o line

\* the bullet inference inside a section
FormatContentLine(line) ==
    IF \/ StartsWith(line, <<"-", " ">>)
       \/ StartsWith(line, <<"*", " ">>)
       \/ line[1] \in Digits
    THEN line
    ELSE <<"-", " ">> \o line

\* mutant of ScanSection: the header test comes after the break test, so a
\* repeat of the section's own header closes the section
RECURSIVE ScanSectionStopsAtRepeat(_, _, _, _)
ScanSectionStopsAtRepeat(lines, header, in_section, content) ==
    IF lines = <<>> THEN content
    ELSE LET line == Head(lines) IN
         IF in_section /\ StartsWith(line, H2Prefix) THEN content
         ELSE IF line = header
              THEN ScanSectionStopsAtRepeat(Tail(lines), header, TRUE, content)
         ELSE IF in_section
              THEN ScanSectionStopsAtRepeat(Tail(lines), header, TRUE,
                                            Append(content, FormatContentLine(line)))
              ELSE ScanSectionStopsAtRepeat(Tail(lines), header, FALSE, content)

\* the inner loop "Look for this section in AI output"
RECURSIVE ScanSection(_, _, _, _)
ScanSection(lines, header, in_section, content) ==
    IF lines = <<>> THEN content
    ELSE LET line == Head(lines) IN
         IF line = header THEN ScanSection(Tail(lines), header, TRUE, content)
         ELSE IF in_section /\ StartsWith(line, H2Prefix) THEN content
         ELSE IF in_section
              THEN ScanSection(Tail(lines), header, TRUE,
                               Append(content, FormatContentLine(line)))
              ELSE ScanSection(Tail(lines), header, FALSE, content)

SectionContent(lines, section) == ScanSection(lines, Header(section), FALSE, <<>>)

\* mutant of SectionBlock: a section with no content is left out
SectionBlockSkipsEmpty(lines, section) ==
    LET content == SectionContent(lines, section)
    IN  IF content # <<>> THEN <<Header(section)>> \o content ELSE <<>>

\* mutant of SectionBlock: the placeholder is appended whether or not there
\* is content
SectionBlockAlwaysPlaceholder(lines, section) ==
    <<Header(section)>> \o SectionContent(lines, section) \o <<PlaceholderBullet(section)>>

\* "Add section (even if empty)"
SectionBlock(lines, section) ==
    LET content == SectionContent(lines, section)
    IN  <<Header(section)>> \o
        (IF content # <<>> THEN content ELSE <<PlaceholderBullet(section)>>)

RECURSIVE SectionBlocks(_, _)
SectionBlocks(lines, sections) ==
    IF sections = <<>> THEN <<>>
    ELSE SectionBlock(lines, Head(sections)) \o SectionBlocks(lines, Tail(sections))

final_lines(lines) == TitleBlock(lines) \o SectionBlocks(lines, required_sections)

\* the rebuild from the stripped model response down to the return statement
StrictRebuild(ai_output) == Join(final_lines(NormalizeLines(Anchor(ai_output))))

\* the hard-coded document of the except branch
FallbackLines ==
    << TitleMarker, <<"-", " ", "AI Processing Failed">>, <<>>,
       Header("Goals / Objectives"), <<"-", " ", "Input too large or model unreachable">>, <<>>,
       Header("Key Features or Deliverables"), <<"-", " ", "Check Ollama and retry">>, <<>>,
       Header("Tasks and Steps"), <<"-", " ", "Reduce input size">>,
                                  <<"-", " ", "Try simpler model">>, <<>>,
       Header("Estimated Timeline / Deadlines"), <<"-", " ", "Immediate">>, <<>>,
       Header("Resources / Tools Needed"), <<"-", " ", "Stable connection to Ollama">>, <<>>,
       Header("Potential Risks / Challenges"), <<"-", " ", "Timeout or model crash">>, <<>>,
       Header("Next Actions"), <<"-", " ", "Retry with shorter input">> >>

FallbackDocument == Join(FallbackLines) \o <<"\n">>

\* Outcomes of the generation call: a JSON body with a string "response", or
\* one of the exceptions requests / json / str raise inside the try block.
CallFailures == {"timeout", "connection_error", "http_error", "invalid_json", "response_not_a_string"}

Ok(response) == [kind |-> "ok", response |-> response]
Failed(kind) == [kind |-> kind, response |-> <<>>]

\* the try block: either the returned string or the exception raised
TryBody(call) ==
    IF call.kind = "ok"
    THEN [raised |-> FALSE, value |-> StrictRebuild(Strip(call.response))]
    ELSE [raised |-> TRUE, value |-> call.kind]

\* `except Exception` catches every exception the try block raises
CaughtExceptions == CallFailures

\* the exception that leaves text_to_project_notes, "none" when it returns
Escaping(call) ==
    LET attempt == TryBody(call)
    IN  IF attempt.raised /\ attempt.value \notin CaughtExceptions
        THEN attempt.value ELSE "none"

text_to_project_notes(call) ==
    LET attempt == TryBody(call)
    IN  IF attempt.raised THEN FallbackDocument ELSE attempt.value

\* ------------------------------------------------------- model responses
\* Raw lines a model response is assembled from.
SampleLines ==
    { <<>>,
      TitleMarker,
      <<"a", " ">> \o TitleMarker,
      <<"#", " ", "a">>,
      Header("Goals / Objectives"),
      <<" ">> \o Header("Tasks and Steps"),
      Header("Next Actions"),
      <<"#", "#", " ", "a">>,
      <<"a">>,
      <<"-", " ", "a">>,
      <<"*", "a">>,
      <<"1", "a">> }

RECURSIVE LineSeqs(_)
LineSeqs(n) ==
    IF n = 0 THEN {<<>>}
    ELSE LET shorter == LineSeqs(n - 1)
         IN  shorter \cup {Append(ls, l) : ls \in {x \in shorter : Len(x) = n - 1}, l \in SampleLines}

Responses == {Join(ls) : ls \in LineSeqs(MaxLines)}

Calls == {Ok(r) : r \in Responses} \cup {Failed(k) : k \in CallFailures}

\* ------------------------------------------------------- text extraction
\* An upload's filename: Path(filename).stem and Path(filename).suffix
NoName == [stem |-> <<>>, suffix |-> ""]
Name(stem, suffix) == [stem |-> <<stem>>, suffix |-> suffix]

\* ext = Path(filepath).suffix.lower()
Lower(suffix) == IF suffix = ".PNG" THEN ".png" ELSE suffix

ErrorMarker == <<"[", "ERROR">>
UnsupportedMarker == <<"[", "UNSUPPORTED">>

FileText == <<"a">>

\* Each extractor returns the text of a readable file and an error string for
\* any exception raised while reading or transcribing it.
extract_text_from_txt(readable) ==
    IF readable THEN FileText
    ELSE ErrorMarker \o <<":", " ", "Could not read TXT", "]", " ", "e">>

extract_text_from_docx(readable) ==
    IF readable THEN Strip(FileText)
    ELSE ErrorMarker \o <<":", " ", "Could not read DOCX", "]", " ", "e">>

extract_text_from_pdf(readable) ==
    IF readable THEN FileText
    ELSE ErrorMarker \o <<":", " ", "Could not read PDF", "]", " ", "e">>

image_to_text_ocr(readable) ==
    IF readable THEN Strip(FileText)
    ELSE <<"[", "OCR", " ", "ERROR", "]", " ", "e">>

extract_text(filepath, readable) ==
    LET ext == Lower(filepath.suffix)
    IN  IF ext \in {".txt"} THEN extract_text_from_txt(readable)
        ELSE IF ext \in {".doc", ".docx"} THEN extract_text_from_docx(readable)
        ELSE IF ext = ".pdf" THEN extract_text_from_pdf(readable)
        ELSE IF ext \in {".png", ".jpg", ".jpeg", ".bmp", ".tiff", ".webp"}
             THEN image_to_text_ocr(readable)
        ELSE UnsupportedMarker \o <<" ", "FILE TYPE", ":", " ", ext, "]", " ", "File not processed.">>

\* has the extraction of this upload failed: a read or transcription error,
\* or an extension no extractor handles (history, not read by the handler)
ExtractionFailed(filepath, readable) ==
    \/ ~readable
    \/ Lower(filepath.suffix) \notin {".txt", ".doc", ".docx", ".pdf", ".png", ".jpg",
                                      ".jpeg", ".bmp", ".tiff", ".webp"}

\* raw_text.startswith("[ERROR") or "[UNSUPPORTED" in raw_text
IsErrorText(text) ==
    \/ StartsWith(text, ErrorMarker)
    \/ Find(text, UnsupportedMarker) # 0

\* ------------------------------------------------------------ upload paths
CounterText == <<"1", "2", "3", "4", "5", "6", "7", "8", "9">>

\* uploads_dir / f"{Path(filename).stem}_{counter}{Path(filename).suffix}"
Renamed(filename, counter) ==
    [stem |-> filename.stem \o <<"_", CounterText[counter]>>, suffix |-> filename.suffix]

\* the `while temp_path.exists()` loop
RECURSIVE FreePath(_, _, _, _)
FreePath(filename, path, counter, existing) ==
    IF path \in existing
    THEN FreePath(filename, Renamed(filename, counter), counter + 1, existing)
    ELSE path

ChoosePath(filename, existing) == FreePath(filename, filename, 1, existing)

\* ------------------------------------------------------------ process_files
Filenames ==
    { NoName, Name("a", ".txt"), Name("a", ".PNG"), Name("a", ".xyz"),
      Name("b", ".docx"), Name("b", ".pdf") }

RECURSIVE FileSeqs(_)
FileSeqs(n) ==
    IF n = 0 THEN {<<>>}
    ELSE LET shorter == FileSeqs(n - 1)
         IN  shorter \cup {Append(fs, f) : fs \in {x \in shorter : Len(x) = n - 1}, f \in Filenames}

\* outcomes of the generation call that the handler's environment produces
RequestCalls == {Ok(<<"a">>), Failed("timeout"), Failed("connection_error")}

NoEvent ==
    [saved |-> FALSE, extraction |-> "none", gen_calls |-> 0, call |-> "none",
     wrote |-> FALSE, status |-> "none"]

\* no request is being handled by another thread
NoThreads ==
    /\ threads = <<>>
    /\ stored = <<>>

Idle ==
    /\ files = <<>>
    /\ idx = 0
    /\ pc = "idle"
    /\ temp_path = NoName
    /\ raw_text = <<>>
    /\ results = <<>>
    /\ http_status = 0
    /\ uploads = {}
    /\ outputs = <<>>
    /\ trail = <<>>

Init ==
    /\ files \in FileSeqs(MaxFiles)
    /\ idx = 0
    /\ pc = "start"
    /\ temp_path = NoName
    /\ raw_text = <<>>
    /\ results = <<>>
    /\ http_status = 0
    /\ uploads = {}
    /\ outputs = <<>>
    /\ trail = [i \in 1..Len(files) |-> NoEvent]
    /\ ai_call = Failed("none")
    /\ document = <<>>
    /\ redocument = <<>>
    /\ phase = "idle"
    /\ NoThreads

\* "files" not in request.files, or no file with a filename: 400
Reject ==
    /\ pc = "start"
    /\ \A i \in 1..Len(files) : files[i] = NoName
    /\ http_status' = 400
    /\ pc' = "returned"
    /\ UNCHANGED <<files, idx, temp_path, raw_text, results, uploads, outputs, trail>>
    /\ UNCHANGED notes_vars
    /\ UNCHANGED upload_vars

\* results = []; the loop starts
Begin ==
    /\ pc = "start"
    /\ \E i \in 1..Len(files) : files[i] # NoName
    /\ idx' = 1
    /\ pc' = "loop"
    /\ UNCHANGED <<files, temp_path, raw_text, results, http_status, uploads, outputs, trail>>
    /\ UNCHANGED notes_vars
    /\ UNCHANGED upload_vars

\* if not file or not file.filename: continue
SkipFile ==
    /\ pc = "loop"
    /\ idx <= Len(files)
    /\ files[idx] = NoName
    /\ idx' = idx + 1
    /\ UNCHANGED <<files, pc, temp_path, raw_text, results, http_status, uploads, outputs, trail>>
    /\ UNCHANGED notes_vars
    /\ UNCHANGED upload_vars

\* the upload path is chosen and file.save(temp_path) runs, outside any try:
\* an OSError it raises ends the request with a 500 and no results
SaveUpload ==
    /\ pc = "loop"
    /\ idx <= Len(files)
    /\ files[idx] # NoName
    /\ LET path == ChoosePath(files[idx], uploads) IN
       \E save_ok \in BOOLEAN :
          IF save_ok
          THEN /\ temp_path' = path
               /\ uploads' = uploads \cup {path}
               /\ trail' = [trail EXCEPT ![idx].saved = TRUE]
               /\ pc' = "extract"
               /\ UNCHANGED <<http_status, results>>
          ELSE /\ http_status' = 500
               /\ results' = <<>>
               /\ pc' = "returned"
               /\ UNCHANGED <<temp_path, uploads, trail>>
    /\ UNCHANGED <<files, idx, raw_text, outputs>>
    /\ UNCHANGED notes_vars
    /\ UNCHANGED upload_vars

\* Step 1: extract_text, then the error-marker test on its result
ExtractText ==
    /\ pc = "extract"
    /\ \E readable \in BOOLEAN :
          LET text == extract_text(temp_path, readable)
              extraction == IF ExtractionFailed(files[idx], readable) THEN "failed" ELSE "ok"
          IN  /\ raw_text' = text
              /\ IF IsErrorText(text)
                 THEN /\ results' = Append(results,
                             [filename |-> files[idx], status |-> "failed", error |-> text])
                      /\ trail' = [trail EXCEPT ![idx].extraction = extraction,
                                                ![idx].status = "failed"]
                      /\ idx' = idx + 1
                      /\ pc' = "loop"
                 ELSE /\ trail' = [trail EXCEPT ![idx].extraction = extraction]
                      /\ pc' = "structure"
                      /\ UNCHANGED <<results, idx>>
    /\ UNCHANGED <<files, temp_path, http_status, uploads, outputs>>
    /\ UNCHANGED notes_vars
    /\ UNCHANGED upload_vars

\* the try block of Step 2: the exception that leaves it ("none" when it
\* runs to its end).  text_to_project_notes returns a document whatever the
\* generation call does, so only output_path.write_text can raise here.
StructuringException(call, write_ok) ==
    IF Escaping(call) # "none" THEN Escaping(call)
    ELSE IF write_ok THEN "none" ELSE "OSError"

\* the result the handlers of Step 2 append
StructuringResult(filename, text, call, write_ok) ==
    LET exc == StructuringException(call, write_ok)
    IN  IF exc = "none"
        THEN [filename |-> filename, status |-> "success", raw_text_preview |-> text,
              enhanced_notes |-> text_to_project_notes(call)]
        ELSE IF exc = "timeout"
        THEN [filename |-> filename, status |-> "failed", error |-> <<"AI timeout">>]
        ELSE IF exc \in {"connection_error", "http_error"}
        THEN [filename |-> filename, status |-> "failed", error |-> <<"Ollama API error", exc>>]
        ELSE [filename |-> filename, status |-> "failed",
              error |-> <<"Unexpected error during AI processing", exc>>]

\* Step 2: one call of text_to_project_notes (one generation call), the document written to
\* outputs_dir / f"{stem}.md", the result appended
StructureNotes ==
    /\ pc = "structure"
    /\ \E call \in RequestCalls, write_ok \in BOOLEAN :
          LET result == StructuringResult(files[idx], raw_text, call, write_ok)
          IN  /\ results' = Append(results, result)
              /\ outputs' = IF write_ok
                            THEN (files[idx].stem :> text_to_project_notes(call)) @@ outputs
                            ELSE outputs
              /\ trail' = [trail EXCEPT
                     ![idx].gen_calls = @ + 1,
                     ![idx].call = call.kind,
                     ![idx].wrote = write_ok,
                     ![idx].status = result.status]
    /\ idx' = idx + 1
    /\ pc' = "loop"
    /\ UNCHANGED <<files, temp_path, raw_text, http_status, uploads>>
    /\ UNCHANGED notes_vars
    /\ UNCHANGED upload_vars

\* return jsonify({"message": ..., "results": results})
Return ==
    /\ pc = "loop"
    /\ idx > Len(files)
    /\ http_status' = 200
    /\ pc' = "returned"
    /\ UNCHANGED <<files, idx, temp_path, raw_text, results, uploads, outputs, trail>>
    /\ UNCHANGED notes_vars
    /\ UNCHANGED upload_vars

Next == Reject \/ Begin \/ SkipFile \/ SaveUpload \/ ExtractText \/ StructureNotes \/ Return

Spec == Init /\ [][Next]_vars

\* ------------------------------------------------- concurrent requests
\* app.run(..., threaded=True): every POST /api/process runs process_files in
\* a thread of its own, all on the one uploads_dir.  Each request carries one
\* upload; its bytes are named after the request.
Requests == 1..MaxRequests

Bytes(r) == r
EarlierBytes == 0

UploadNames == {Name("a", ".txt"), Name("b", ".txt")}

\* filename = file.filename; temp_path = uploads_dir / filename; counter = 1
Arrived(filename) ==
    [filename |-> filename, pc |-> "choose", temp_path |-> filename, counter |-> 1,
     raw_text |-> EarlierBytes]

InitUploads ==
    /\ threads \in [Requests -> {Arrived(f) : f \in UploadNames}]
    /\ stored \in {<<>>, (Name("a", ".txt") :> EarlierBytes)}
    /\ Idle
    /\ ai_call = Failed("none")
    /\ document = <<>>
    /\ redocument = <<>>
    /\ phase = "idle"

\* one test of `while temp_path.exists()`, and the loop body when it is true
TestPath(r) ==
    /\ threads[r].pc = "choose"
    /\ IF threads[r].temp_path \in DOMAIN stored
       THEN /\ threads[r].counter <= Len(CounterText)
            /\ threads' = [threads EXCEPT
                   ![r].temp_path = Renamed(threads[r].filename, threads[r].counter),
                   ![r].counter = @ + 1]
       ELSE threads' = [threads EXCEPT ![r].pc = "save"]
    /\ UNCHANGED stored
    /\ UNCHANGED <<notes_vars, request_vars>>

\* file.save(temp_path): the file is created or truncated and the upload's
\* bytes written; an OSError ends the request
SaveFile(r) ==
    /\ threads[r].pc = "save"
    /\ \E save_ok \in BOOLEAN :
          IF save_ok
          THEN /\ stored' = (threads[r].temp_path :> Bytes(r)) @@ stored
               /\ threads' = [threads EXCEPT ![r].pc = "extract"]
          ELSE /\ threads' = [threads EXCEPT ![r].pc = "aborted"]
               /\ UNCHANGED stored
    /\ UNCHANGED <<notes_vars, request_vars>>

\* raw_text = extract_text(temp_path): the bytes now at temp_path are read
ReadUpload(r) ==
    /\ threads[r].pc = "extract"
    /\ threads' = [threads EXCEPT ![r].raw_text = stored[threads[r].temp_path],
                                  ![r].pc = "read"]
    /\ UNCHANGED stored
    /\ UNCHANGED <<notes_vars, request_vars>>

NextUploads == \E r \in Requests : TestPath(r) \/ SaveFile(r) \/ ReadUpload(r)

SpecUploads == InitUploads /\ [][NextUploads]_vars

\* ------------------------------------------------------------ SpecNotes
InitNotes ==
    /\ ai_call \in Calls
    /\ document = <<>>
    /\ redocument = <<>>
    /\ phase = "start"
    /\ Idle
    /\ NoThreads

\* text_to_project_notes on the outcome of its generation call
Structure ==
    /\ phase = "start"
    /\ document' = text_to_project_notes(ai_call)
    /\ phase' = "structured"
    /\ UNCHANGED <<ai_call, redocument>>
    /\ UNCHANGED request_vars
    /\ UNCHANGED upload_vars

\* text_to_project_notes again, the model answering with the document itself
Refeed ==
    /\ phase = "structured"
    /\ redocument' = text_to_project_notes(Ok(document))
    /\ phase' = "refed"
    /\ UNCHANGED <<ai_call, document>>
    /\ UNCHANGED request_vars
    /\ UNCHANGED upload_vars

NextNotes == Structure \/ Refeed

SpecNotes == InitNotes /\ [][NextNotes]_vars

\* ------------------------------------------------ reading a document back
\* the non-empty trimmed lines of the model response, after anchoring
ResponseLines == NormalizeLines(Anchor(Strip(ai_call.response)))

DocLines == splitlines(document)

IsHeaderLine(line) == StartsWith(line, H2Prefix)

\* least index in from..Len(L) whose line satisfies Test, Len(L) + 1 if none
FirstFrom(L, from, Test(_)) ==
    LET hits == {i \in from..Len(L) : Test(L[i])}
    IN  IF hits = {} THEN Len(L) + 1 ELSE CHOOSE i \in hits : \A j \in hits : i <= j

\* the lines of L under the first line equal to `header`, up to the next header line
LinesUnder(L, header) ==
    LET h == FirstFrom(L, 1, LAMBDA l : l = header)
    IN  IF h > Len(L) THEN <<>>
        ELSE SubSeq(L, h + 1, FirstFrom(L, h + 1, IsHeaderLine) - 1)

\* the lines of L between its first line and its first header line
LinesUnderTitle(L) == SubSeq(L, 2, FirstFrom(L, 1, IsHeaderLine) - 1)

\* the lines of L before its first header line
LinesBeforeHeaders(L) == SubSeq(L, 1, FirstFrom(L, 1, IsHeaderLine) - 1)

MapLines(L, F(_)) == [i \in 1..Len(L) |-> F(L[i])]

\* is some line of L equal to `header`
HasHeader(L, header) == \E i \in 1..Len(L) : L[i] = header

\* the lines of L from the first line equal to `header` up to the next line
\* that begins with "## " and is not a repeat of `header`, repeats left out
LinesUnderUpToRepeats(L, header) ==
    LET h == FirstFrom(L, 1, LAMBDA l : l = header)
        stop == FirstFrom(L, h + 1, LAMBDA l : IsHeaderLine(l) /\ l # header)
    IN  SelectSeq(SubSeq(L, h + 1, stop - 1), LAMBDA l : l # header)

Sections == {required_sections[i] : i \in 1..Len(required_sections)}

Structured == phase # "start" /\ ai_call.kind = "ok"

\* ------------------------------------------------------------------ claims

\* C1: whatever the model response and whatever the outcome of the generation
\* call, text_to_project_notes returns (no exception leaves it) a document
\* that starts with the only line equal to "# Project Title", and whose lines
\* beginning with "## " are exactly the seven required section headers, once
\* each, in the configured order.
C1_StructureValid ==
    phase # "start" =>
        LET D == DocLines IN
        /\ Escaping(ai_call) = "none"
        /\ Len(D) >= 1
        /\ D[1] = TitleMarker
        /\ \A i \in 2..Len(D) : D[i] # TitleMarker
        /\ SelectSeq(D, IsHeaderLine)
               = [i \in 1..Len(required_sections) |-> Header(required_sections[i])]

\* C1 witness: a response whose "Next Actions" header comes before its
\* "Goals / Objectives" header has been rebuilt.
C1_Witness ==
    /\ Structured
    /\ LET R == ResponseLines IN
       \E i, j \in 1..Len(R) :
          /\ i < j
          /\ R[i] = Header("Next Actions")
          /\ R[j] = Header("Goals / Objectives")

\* C2 (as claimed): in the rebuilt document every section header line is
\* immediately preceded by one empty line, there is no other empty line, and
\* the empty response yields title, default bullet and, per section, a blank
\* line, the header and the placeholder bullet.
C2_BlankLineSeparated ==
    Structured =>
        LET D == DocLines IN
        /\ \A i \in 1..Len(D) : IsHeaderLine(D[i]) => (i > 1 /\ D[i - 1] = <<>>)
        /\ \A i \in 1..Len(D) : D[i] = <<>> => (i < Len(D) /\ IsHeaderLine(D[i + 1]))
        /\ ai_call.response = <<>> =>
              document = Join(<<TitleMarker, DefaultTitleBullet>> \o
                              [i \in 1..(3 * Len(required_sections)) |->
                                  IF i % 3 = 1 THEN <<>>
                                  ELSE IF i % 3 = 2 THEN Header(required_sections[(i + 1) \div 3])
                                  ELSE PlaceholderBullet(required_sections[i \div 3])])

\* C3: the document rebuilt from a model response, fed back as the model
\* response, is rebuilt into the very same document.
C3_FixedPoint ==
    (phase = "refed" /\ ai_call.kind = "ok") => redocument = document

\* C3 witness: a response with a plain line, which the rebuild promoted to a
\* bullet, has been rebuilt and the document fed back.
C3_Witness ==
    /\ phase = "refed"
    /\ ai_call.kind = "ok"
    /\ document # Strip(ai_call.response)
    /\ LET R == ResponseLines IN \E i \in 1..Len(R) : R[i] = <<"a">>

C8_TitleBlockKeepsEveryLine ==
    Structured =>
        LET D == DocLines
            kept == SelectSeq(LinesBeforeHeaders(ResponseLines),
                              LAMBDA l : ~StartsWith(l, TitleMarker))
        IN  /\ D[1] = TitleMarker
            /\ LinesUnderTitle(D)
                   = IF kept = <<>> THEN <<DefaultTitleBullet>>
                     ELSE MapLines(kept, FormatTitleLine)

\* C9 (as claimed): for a response with no "next actions" header, the document
\* is the response followed by a "Next Steps" section of two bullets.
C9_PermissiveAppendsNextSteps ==
    LET R == ResponseLines IN
    (Structured /\ \A i \in 1..Len(R) : ~IsHeaderLine(R[i])) =>
        LET D == DocLines
            n == Len(D)
        IN  /\ n >= 3
            /\ D[n - 2] = Header("Next Steps")
            /\ StartsWith(D[n - 1], <<"-", " ">>)
            /\ StartsWith(D[n], <<"-", " ">>)
            /\ StartsWith(document, Strip(ai_call.response))

Named == {i \in 1..Len(files) : files[i] # NoName}

\* C4 (as claimed): an upload whose generation call timed out or failed is
\* reported as failed, after exactly one generation call.
C4_GenerationFailureReported ==
    \A i \in 1..Len(files) :
        (idx > i /\ trail[i].call \in CallFailures) =>
            /\ trail[i].status = "failed"
            /\ trail[i].gen_calls = 1

\* C5 (as claimed): an upload whose text extraction failed is reported as
\* failed, with no generation call made and no output file written for it.
C5_ExtractionFailureShortCircuits ==
    \A i \in 1..Len(files) :
        (idx > i /\ trail[i].extraction = "failed") =>
            /\ trail[i].status = "failed"
            /\ trail[i].gen_calls = 0
            /\ ~trail[i].wrote

\* C6 (as claimed): whatever fails while one upload is handled, the response
\* carries one result, "success" or "failed", for every upload with a
\* filename, in upload order.
C6_BatchNeverAborted ==
    (pc = "returned" /\ Named # {}) =>
        /\ http_status = 200
        /\ [i \in 1..Len(results) |-> results[i].filename]
               = SelectSeq(files, LAMBDA f : f # NoName)
        /\ \A i \in 1..Len(results) : results[i].status \in {"success", "failed"}

\* C11 (as claimed): under any interleaving of requests, an upload that has
\* been saved is the only one saved to its path, its stored bytes are its own
\* (nothing overwrote it), and the text read back for it comes from its own
\* bytes.
C11_UploadsNeverClobbered ==
    \A r \in DOMAIN threads :
        /\ threads[r].pc \in {"extract", "read"} =>
              /\ stored[threads[r].temp_path] = Bytes(r)
              /\ \A q \in DOMAIN threads \ {r} :
                    threads[q].pc \in {"extract", "read"} =>
                        threads[q].temp_path # threads[r].temp_path
        /\ threads[r].pc = "read" => threads[r].raw_text = Bytes(r)

====
